---- MODULE Spec2Model ----
(***************************************************************************)
(* Model of outsource/workflow/combine.py: the merge of per-job strax      *)
(* output (merge), the chunk/metadata agreement check (check_chunk_n) and  *)
(* the level selection, merge loop and rucio upload loop of main.          *)
(*                                                                         *)
(* External collaborators (strax savers, Context.copy_to_frontend, admix)  *)
(* are modelled by what the script observes of them: a call that either    *)
(* returns or raises.  shutil.copytree is modelled by its stdlib contract: *)
(* it raises FileExistsError when the destination directory exists.        *)
(***************************************************************************)
EXTENDS Integers, Sequences, FiniteSets, TLC

\* ------------------------------------------------------------------ bounds
MaxChunks == 2     \* most chunk files stored in one merged directory
MaxRows == 1       \* largest row count of a chunk / largest declared n
MaxStaged == 3     \* most distinct dtype names present in the staging directory
MaxRuns == 2       \* invocations of the script on the same staging directory

\* --------------------------------------------------------------- constants
DTypes ==
  {"records", "veto_regions", "pulse_counts", "peaklets", "lone_hits",
   "hitlets_nv", "afterpulses", "led_calibration", "events"}

Levels == {"records", "peaklets", "hitlets_nv", "afterpulses", "led_calibration"}

runid_str == "000123"
path == "staging"              \* args.input
final_path == "finished_data"

\* plugin.provides of the plugin st._get_plugins((dtype,), runid_str)[dtype]
Provides(dtype) ==
  CASE dtype = "records" -> <<"records", "veto_regions", "pulse_counts">>
    [] dtype = "peaklets" -> <<"peaklets", "lone_hits">>
    [] OTHER -> <<dtype>>

\* os.path.join(root, name)
Join(root, name) == [root |-> root, name |-> name]

\* the directory name <run>-<dtype>-<hash> of a dtype; split('-') gives it back
straxhash(keystring) == <<"lineage", keystring>>
DirName(keystring) == <<runid_str, keystring, straxhash(keystring)>>

\* admix.utils.make_did(runid, keystring, straxhash)
make_did(run, keystring, hash) == [scope |-> <<"xnt", run>>, name |-> <<keystring, hash>>]

\* ------------------------------------------------------------- directories
SeqsUpTo(n, S) == UNION {[1..k -> S] : k \in 0..n}

\* A merged directory as check_chunk_n sees it: empty (no file at all), or the
\* metadata json (sorted last) with its chunks' n, and the stored chunk files,
\* each with the number of rows strax.load_file decodes from it.
Dirs ==
  {[empty |-> TRUE, rows |-> <<>>, n |-> <<>>]} \cup
  {[empty |-> FALSE, rows |-> r, n |-> m] :
      r \in SeqsUpTo(MaxChunks, 0..MaxRows), m \in SeqsUpTo(MaxChunks + 1, 0..MaxRows)}

\* check_chunk_n with the trailing-chunk assertion left out
check_chunk_n_noTrailing(directory) ==
  IF directory.empty THEN "IndexError"
  ELSE
    LET n_chunks == Len(directory.rows)
        n_metadata_chunks == Len(directory.n)
    IN IF n_chunks # 0
       THEN IF ~(n_chunks = n_metadata_chunks \/ n_chunks = n_metadata_chunks - 1)
            THEN "AssertionError"
            ELSE IF \E i \in 1..n_chunks : directory.n[i] # directory.rows[i]
            THEN "DataCorrupted"
            ELSE "ok"
       ELSE IF n_metadata_chunks # 1 THEN "AssertionError"
            ELSE IF directory.n[1] # 0 THEN "AssertionError"
            ELSE "ok"

\* check_chunk_n(directory): "ok" when it returns, else the exception it raises
check_chunk_n(directory) ==
  IF directory.empty THEN "IndexError"               \* files[-1] of an empty glob
  ELSE
    LET n_chunks == Len(directory.rows)              \* len(files) - 1
        n_metadata_chunks == Len(directory.n)
    IN IF n_chunks # 0
       THEN IF ~(n_chunks = n_metadata_chunks \/ n_chunks = n_metadata_chunks - 1)
            THEN "AssertionError"
            ELSE IF \E i \in 1..n_chunks : directory.n[i] # directory.rows[i]
            THEN "DataCorrupted"
            ELSE IF n_chunks = n_metadata_chunks - 1 /\ directory.n[n_chunks + 1] # 0
            THEN "AssertionError"
            ELSE "ok"
       ELSE IF n_metadata_chunks # 1 THEN "AssertionError"
            ELSE IF directory.n[1] # 0 THEN "AssertionError"
            ELSE "ok"

\* what main sees of a merged directory: whether os.listdir finds it empty, and
\* what check_chunk_n does on it
DirOutcomes == {[empty |-> d.empty, res |-> check_chunk_n(d)] : d \in Dirs}

\* ---------------------------------------------------------- level selection
\* the selection with the first two rules tried in the other order
select_levels_swapped(dtypes) ==
  IF "hitlets_nv" \in dtypes THEN <<"hitlets_nv">>
  ELSE IF \E d \in {"lone_hits", "pulse_counts", "veto_regions"} : d \in dtypes
  THEN <<"records", "peaklets">>
  ELSE IF "afterpulses" \in dtypes THEN <<"afterpulses">>
  ELSE IF "led_calibration" \in dtypes THEN <<"led_calibration">>
  ELSE <<"peaklets">>

\* plugin_levels of main, from the dtype names in the staging directory
select_levels(dtypes) ==
  IF \E d \in {"lone_hits", "pulse_counts", "veto_regions"} : d \in dtypes
  THEN <<"records", "peaklets">>
  ELSE IF "hitlets_nv" \in dtypes THEN <<"hitlets_nv">>
  ELSE IF "afterpulses" \in dtypes THEN <<"afterpulses">>
  ELSE IF "led_calibration" \in dtypes THEN <<"led_calibration">>
  ELSE <<"peaklets">>

\* --------------------------------------------------------- rechunk decision
\* the decision that ignores the per-dtype entry of a mapping policy
rechunk_ignoring_entry(policy, entry) == IF policy.kind = "immutabledict" THEN TRUE ELSE policy.val

\* rechunk of merge: policy is plugin.rechunk_on_save, entry its [keystring]
rechunk(policy, entry) == IF policy.kind = "immutabledict" THEN entry ELSE policy.val

\* ------------------------------------------------------------ upload helpers
never_upload_recordsOnlyNv(keystring) == keystring = "records_nv"

never_upload(keystring) == keystring = "records" \/ keystring = "records_nv"

rse_for(keystring) ==
  IF keystring \in {"records", "pulse_counts", "veto_regions"} THEN "records_rse"
  ELSE IF keystring \in {"peaklets", "lone_hits", "merged_s2s", "hitlets_nv"} THEN "peaklets_rse"
  ELSE "events_rse"

Perms(S) == {s \in [1..Cardinality(S) -> S] : \A i, j \in 1..Cardinality(S) : s[i] = s[j] => i = j}

\* -------------------------------------------------------------------- state
VARIABLES
  staged,           \* dtype names of the directories in the staging directory (args.input)
  upload_to_rucio,  \* args.upload_to_rucio
  pc,               \* position of the script
  storage,          \* [storage.path for storage in st.storage]
  storage_paths,    \* _storage_paths of the merge call in progress
  plugin_levels,    \* plugin_levels of main
  level_i,          \* position of the merge loop in plugin_levels
  key_i,            \* position of a loop of merge in plugin.provides
  rechunk_on_save,  \* per level, plugin.rechunk_on_save: a bool or an immutabledict
  rechunk_entries,  \* per dtype, the entry of the immutabledict once it was read
  closed,           \* dtypes whose saver was closed by the merge call in progress
  rechunked,        \* dtypes copied by copy_to_frontend(rechunk=True) in that call
  copied,           \* dtypes copied by shutil.copytree in that call
  merge_calls,      \* levels merge was called with, in call order, this invocation
  tree,             \* directories that exist below the destination storage roots
  listing,          \* os.listdir(final_path) of the upload loop
  dir_i,            \* position of the upload loop in listing
  keystring,        \* dtype of this_dir in the upload loop
  contents,         \* contents_to_upload: "empty" or "files" ("unlisted" before)
  checked,          \* dtypes whose directory check_chunk_n accepted, this invocation
  skipped,          \* dtypes the upload loop skipped with continue, this invocation
  calls,            \* the admix calls made, in order, this invocation
  err,              \* the exception that ended the invocation, "none" if none
  runs,             \* invocations started so far
  prev_err,         \* how the previous invocation ended ("none": without exception)
  vdir,             \* argument of a stand-alone check_chunk_n call
  vres              \* its outcome, "pending" before the call

vars ==
  <<staged, upload_to_rucio, pc, storage, storage_paths, plugin_levels, level_i, key_i,
    rechunk_on_save, rechunk_entries, closed, rechunked, copied, merge_calls, tree,
    listing, dir_i, keystring, contents, checked, skipped, calls, err, runs, prev_err, vdir, vres>>

mergeVars == <<storage_paths, key_i, closed, rechunked, copied>>
uploadVars == <<listing, dir_i, keystring, contents, checked, skipped, calls>>
inputVars == <<staged, upload_to_rucio>>
verifyVars == <<vdir, vres>>
runVars == <<runs, prev_err>>

\* st.storage as main sets it up before the merge loop
InitialStorage == <<"./", final_path>>

Policies ==
  {[kind |-> "bool", val |-> TRUE], [kind |-> "bool", val |-> FALSE],
   [kind |-> "immutabledict", val |-> TRUE]}

Unset == [kind |-> "unset", val |-> TRUE]

\* the state of a fresh invocation of the script, up to st.storage = [...]
ScriptStart ==
  /\ pc = "start"
  /\ storage = InitialStorage
  /\ storage_paths = <<>>
  /\ plugin_levels = <<>>
  /\ level_i = 1
  /\ key_i = 1
  /\ closed = {} /\ rechunked = {} /\ copied = {}
  /\ merge_calls = <<>>
  /\ listing = <<>>
  /\ dir_i = 1
  /\ keystring = ""
  /\ contents = "unlisted"
  /\ checked = {} /\ skipped = {}
  /\ calls = <<>>
  /\ err = "none"

Init ==
  /\ staged \in {s \in SUBSET DTypes : Cardinality(s) <= MaxStaged}
  /\ upload_to_rucio \in BOOLEAN
  /\ ScriptStart
  /\ rechunk_on_save = [l \in Levels |-> Unset]
  /\ rechunk_entries = [d \in DTypes |-> "unread"]
  /\ tree = {}
  /\ runs = 1
  /\ prev_err = "none"
  /\ vdir = [empty |-> TRUE, rows |-> <<>>, n |-> <<>>]
  /\ vres = "pending"

\* ------------------------------------------------------------------- main
\* main, lines 150-162: the level selection
SelectLevels ==
  /\ pc = "start"
  /\ plugin_levels' = select_levels(staged)
  /\ level_i' = 1
  /\ pc' = "merge_loop"
  /\ UNCHANGED <<inputVars, storage, mergeVars, rechunk_on_save, rechunk_entries,
                 merge_calls, tree, uploadVars, err, runVars, verifyVars>>

\* merge, lines 33-41: entry of the call for plugin_levels[level_i]
MergeBegin ==
  /\ pc = "merge_loop"
  /\ level_i <= Len(plugin_levels)
  /\ LET dtype == plugin_levels[level_i]
     IN /\ merge_calls' = Append(merge_calls, dtype)
        /\ \E p \in (IF rechunk_on_save[dtype].kind = "unset" THEN Policies
                     ELSE {rechunk_on_save[dtype]}) :
             rechunk_on_save' = [rechunk_on_save EXCEPT ![dtype] = p]
  /\ storage_paths' = storage
  /\ key_i' = 1
  /\ closed' = {} /\ rechunked' = {} /\ copied' = {}
  /\ pc' = "close_loop"
  /\ UNCHANGED <<inputVars, storage, plugin_levels, level_i, rechunk_entries, tree,
                 uploadVars, err, runVars, verifyVars>>

\* merge, lines 43-55: one iteration of the saver loop
CloseStep ==
  /\ pc = "close_loop"
  /\ key_i <= Len(Provides(plugin_levels[level_i]))
  /\ LET k == Provides(plugin_levels[level_i])[key_i]
     IN \E raised \in BOOLEAN :
          IF k \notin staged
          THEN /\ key_i' = key_i + 1
               /\ UNCHANGED <<closed, pc, err>>
          ELSE IF raised
          THEN /\ err' = "ExternalError"
               /\ pc' = "failed"
               /\ UNCHANGED <<closed, key_i>>
          ELSE /\ closed' = closed \cup {k}
               /\ key_i' = key_i + 1
               /\ UNCHANGED <<pc, err>>
  /\ UNCHANGED <<inputVars, storage, storage_paths, plugin_levels, level_i, rechunk_on_save,
                 rechunk_entries, rechunked, copied, merge_calls, tree, uploadVars, runVars,
                 verifyVars>>

\* merge, line 58: st.storage[0] = strax.DataDirectory(path)
Repoint ==
  /\ pc = "close_loop"
  /\ key_i > Len(Provides(plugin_levels[level_i]))
  /\ storage' = [storage EXCEPT ![1] = path]
  /\ key_i' = 1
  /\ pc' = "transfer_loop"
  /\ UNCHANGED <<inputVars, storage_paths, plugin_levels, level_i, rechunk_on_save,
                 rechunk_entries, closed, rechunked, copied, merge_calls, tree, uploadVars,
                 err, runVars, verifyVars>>

\* merge, lines 61-80: one iteration of the rechunk-or-copy loop
TransferStep ==
  /\ pc = "transfer_loop"
  /\ key_i <= Len(Provides(plugin_levels[level_i]))
  /\ LET k == Provides(plugin_levels[level_i])[key_i]
         policy == rechunk_on_save[plugin_levels[level_i]]
         entries == IF policy.kind # "immutabledict" THEN {TRUE}
                    ELSE IF rechunk_entries[k] = "unread" THEN BOOLEAN
                    ELSE {rechunk_entries[k] = "True"}
         dest == Join(storage[2], DirName(k))
     IN \E entry \in entries, raised \in BOOLEAN :
          IF k \notin staged
          THEN /\ key_i' = key_i + 1
               /\ UNCHANGED <<rechunk_entries, rechunked, copied, tree, pc, err>>
          ELSE /\ rechunk_entries' =
                    IF policy.kind = "immutabledict"
                    THEN [rechunk_entries EXCEPT ![k] = IF entry THEN "True" ELSE "False"]
                    ELSE rechunk_entries
               /\ IF rechunk(policy, entry)
                  THEN \* st.copy_to_frontend(runid_str, keystring, 1, rechunk=True)
                       IF raised
                       THEN /\ err' = "ExternalError"
                            /\ pc' = "failed"
                            /\ UNCHANGED <<rechunked, copied, tree, key_i>>
                       ELSE /\ rechunked' = rechunked \cup {k}
                            /\ tree' = tree \cup {dest}
                            /\ key_i' = key_i + 1
                            /\ UNCHANGED <<copied, pc, err>>
                  ELSE \* shutil.copytree(src, dest)
                       IF dest \in tree
                       THEN /\ err' = "FileExistsError"
                            /\ pc' = "failed"
                            /\ UNCHANGED <<rechunked, copied, tree, key_i>>
                       ELSE /\ copied' = copied \cup {k}
                            /\ tree' = tree \cup {dest}
                            /\ key_i' = key_i + 1
                            /\ UNCHANGED <<rechunked, pc, err>>
  /\ UNCHANGED <<inputVars, storage, storage_paths, plugin_levels, level_i, rechunk_on_save,
                 closed, merge_calls, uploadVars, runVars, verifyVars>>

\* merge that returns without line 83
MergeReset_noRestore ==
  /\ pc = "transfer_loop"
  /\ key_i > Len(Provides(plugin_levels[level_i]))
  /\ level_i' = level_i + 1
  /\ pc' = "merge_loop"
  /\ UNCHANGED <<inputVars, storage, storage_paths, plugin_levels, key_i, rechunk_on_save,
                 rechunk_entries, closed, rechunked, copied, merge_calls, tree, uploadVars,
                 err, runVars, verifyVars>>

\* merge, line 83, and the return to the loop of main
MergeReset ==
  /\ pc = "transfer_loop"
  /\ key_i > Len(Provides(plugin_levels[level_i]))
  /\ storage' = storage_paths
  /\ level_i' = level_i + 1
  /\ pc' = "merge_loop"
  /\ UNCHANGED <<inputVars, storage_paths, plugin_levels, key_i, rechunk_on_save,
                 rechunk_entries, closed, rechunked, copied, merge_calls, tree, uploadVars,
                 err, runVars, verifyVars>>

\* main, lines 172-181: after the last merge, exit or list final_path
MergeLoopDone ==
  /\ pc = "merge_loop"
  /\ level_i > Len(plugin_levels)
  /\ LET names == {p.name[2] : p \in {q \in tree : q.root = final_path}}
     IN \E l \in Perms(names) :
          IF ~upload_to_rucio
          THEN /\ pc' = "exit"
               /\ UNCHANGED <<storage, listing, dir_i>>
          ELSE /\ storage' = <<final_path>>
               /\ listing' = l
               /\ dir_i' = 1
               /\ pc' = "upload_loop"
  /\ UNCHANGED <<inputVars, mergeVars, plugin_levels, level_i, rechunk_on_save,
                 rechunk_entries, merge_calls, tree, keystring, contents, checked, skipped,
                 calls, err, runVars, verifyVars>>

\* ------------------------------------------------------------- upload loop
\* the admix call (op, local path, rse, did)
Call(op, local, k) ==
  [op |-> op, path |-> local, rse |-> rse_for(k),
   did |-> make_did(runid_str, k, straxhash(k)), dir |-> k]

\* main, lines 181-213: the next this_dir, skipped or taken up to contents_to_upload.
\* The st.get_array probe of lines 203-210 swallows every exception and changes nothing.
UploadNext ==
  /\ pc = "upload_loop"
  /\ IF dir_i > Len(listing)
     THEN /\ pc' = "done"
          /\ UNCHANGED <<dir_i, keystring, skipped>>
     ELSE LET k == listing[dir_i]
          IN /\ dir_i' = dir_i + 1
             /\ keystring' = k
             /\ IF never_upload(k)
                THEN /\ skipped' = skipped \cup {k}
                     /\ pc' = pc
                ELSE /\ pc' = "check"
                     /\ UNCHANGED skipped
  /\ contents' = "unlisted"
  /\ UNCHANGED <<inputVars, storage, mergeVars, plugin_levels, level_i, rechunk_on_save,
                 rechunk_entries, merge_calls, tree, listing, checked, calls, err, runVars,
                 verifyVars>>

\* the upload loop going on to the upload whatever check_chunk_n did
Verify_ignoringResult ==
  /\ pc = "check"
  /\ \E d \in DirOutcomes :
       /\ contents' = IF d.empty THEN "empty" ELSE "files"
       /\ checked' = IF d.res = "ok" THEN checked \cup {keystring} ELSE checked
       /\ pc' = "ship"
       /\ UNCHANGED err
  /\ UNCHANGED <<inputVars, storage, mergeVars, plugin_levels, level_i, rechunk_on_save,
                 rechunk_entries, merge_calls, tree, listing, dir_i, keystring, skipped,
                 calls, runVars, verifyVars>>

\* main, lines 213-218: contents_to_upload and check_chunk_n(this_path) on a
\* directory whose content strax wrote
Verify ==
  /\ pc = "check"
  /\ \E d \in DirOutcomes :
       /\ contents' = IF d.empty THEN "empty" ELSE "files"
       /\ IF d.res = "ok"
          THEN /\ checked' = checked \cup {keystring}
               /\ pc' = "ship"
               /\ UNCHANGED err
          ELSE /\ err' = d.res
               /\ pc' = "failed"
               /\ UNCHANGED checked
  /\ UNCHANGED <<inputVars, storage, mergeVars, plugin_levels, level_i, rechunk_on_save,
                 rechunk_entries, merge_calls, tree, listing, dir_i, keystring, skipped,
                 calls, runVars, verifyVars>>

\* main, lines 223-228 and 238-240: admix.preupload(path, ...), or the ValueError
PreUpload ==
  /\ pc = "ship"
  /\ \E raised \in BOOLEAN :
       IF contents = "files"
       THEN /\ calls' = Append(calls, Call("preupload", Join(path, <<>>), keystring))
            /\ IF raised
               THEN err' = "ExternalError" /\ pc' = "failed"
               ELSE err' = err /\ pc' = "upload"
       ELSE /\ err' = "ValueError"
            /\ pc' = "failed"
            /\ UNCHANGED calls
  /\ UNCHANGED <<inputVars, storage, mergeVars, plugin_levels, level_i, rechunk_on_save,
                 rechunk_entries, merge_calls, tree, listing, dir_i, keystring, contents,
                 checked, skipped, runVars, verifyVars>>

\* main, lines 231-237: admix.upload(this_path, ...)
Upload ==
  /\ pc = "upload"
  /\ calls' = Append(calls, Call("upload", Join(final_path, DirName(keystring)), keystring))
  /\ \E raised \in BOOLEAN :
       IF raised
       THEN err' = "ExternalError" /\ pc' = "failed"
       ELSE err' = err /\ pc' = "upload_loop"
  /\ UNCHANGED <<inputVars, storage, mergeVars, plugin_levels, level_i, rechunk_on_save,
                 rechunk_entries, merge_calls, tree, listing, dir_i, keystring, contents,
                 checked, skipped, runVars, verifyVars>>

\* the script run again on the same staging directory: a new process, the same
\* arguments, plugins and file system
Rerun ==
  /\ pc \in {"exit", "done", "failed"}
  /\ runs < MaxRuns
  /\ runs' = runs + 1
  /\ prev_err' = err
  /\ pc' = "start"
  /\ storage' = InitialStorage
  /\ storage_paths' = <<>>
  /\ plugin_levels' = <<>>
  /\ level_i' = 1
  /\ key_i' = 1
  /\ closed' = {} /\ rechunked' = {} /\ copied' = {}
  /\ merge_calls' = <<>>
  /\ listing' = <<>>
  /\ dir_i' = 1
  /\ keystring' = ""
  /\ contents' = "unlisted"
  /\ checked' = {} /\ skipped' = {}
  /\ calls' = <<>>
  /\ err' = "none"
  /\ UNCHANGED <<inputVars, rechunk_on_save, rechunk_entries, tree, verifyVars>>

Next ==
  \/ SelectLevels
  \/ MergeBegin
  \/ CloseStep
  \/ Repoint
  \/ TransferStep
  \/ MergeReset
  \/ MergeLoopDone
  \/ UploadNext
  \/ Verify
  \/ PreUpload
  \/ Upload
  \/ Rerun

Spec == Init /\ [][Next]_vars

\* ------------------------------------------- check_chunk_n on its own
\* one call of check_chunk_n on any directory within the bounds
InitVerify ==
  /\ staged = {}
  /\ upload_to_rucio = FALSE
  /\ ScriptStart
  /\ rechunk_on_save = [l \in Levels |-> Unset]
  /\ rechunk_entries = [d \in DTypes |-> "unread"]
  /\ tree = {}
  /\ runs = 1
  /\ prev_err = "none"
  /\ vdir \in Dirs
  /\ vres = "pending"

CallCheckChunkN ==
  /\ vres = "pending"
  /\ vres' = check_chunk_n(vdir)
  /\ UNCHANGED <<inputVars, pc, storage, mergeVars, plugin_levels, level_i, rechunk_on_save,
                 rechunk_entries, merge_calls, tree, uploadVars, err, runVars, vdir>>

NextVerify == CallCheckChunkN

SpecVerify == InitVerify /\ [][NextVerify]_vars

\* ================================================================== claims
\* shorthands over the directory of the stand-alone check_chunk_n call
S == Len(vdir.rows)
M == Len(vdir.n)
Checked == vres # "pending"
\* the directory holds its metadata file, and every stored chunk that has a
\* descriptor decodes to that descriptor's n rows
RowsAgree == ~vdir.empty /\ \A i \in 1..S : i <= M => vdir.rows[i] = vdir.n[i]

\* C1 (as stated): for a directory whose stored chunks decode to their descriptors'
\* n, check_chunk_n returns normally iff S = M, or S = M-1 with the last n = 0, or
\* S = 0 with M = 1 and that n = 0.
C1_AcceptsIff_AsStated ==
  (Checked /\ RowsAgree) =>
    (vres = "ok" <=> (S = M \/ (S = M - 1 /\ vdir.n[M] = 0)
                           \/ (S = 0 /\ M = 1 /\ vdir.n[1] = 0)))

\* C1 (amended): for such a directory check_chunk_n returns normally iff S = M with
\* S >= 1, or S = M-1 with the last descriptor's n = 0 (S = 0, M = 1, n = 0 is that
\* case); in every other combination, S = M = 0 included, it raises.
C1_AcceptsIff ==
  (Checked /\ RowsAgree) =>
    (vres = "ok" <=> ((S >= 1 /\ S = M) \/ (S = M - 1 /\ vdir.n[M] = 0)))

\* a directory with stored chunks and an omitted trailing empty chunk was accepted
C1_Witness == Checked /\ RowsAgree /\ S >= 1 /\ S = M - 1 /\ vres = "ok"

\* the chunk/metadata agreement invariant is violated by the directory
Violation ==
  \/ ~(S = M \/ (S = M - 1 /\ vdir.n[M] = 0))
  \/ (S = 0 /\ ~(M = 1 /\ vdir.n[1] = 0))
  \/ \E i \in 1..S : i <= M /\ vdir.rows[i] # vdir.n[i]

\* C2: every violation of the agreement invariant that check_chunk_n meets in a
\* directory holding its metadata is reported as DataCorrupted.
C2_ViolationIsDataCorrupted ==
  (Checked /\ ~vdir.empty /\ Violation) => vres = "DataCorrupted"

NeverUpload == {"records", "records_nv"}
CallsFor(k) == {i \in 1..Len(calls) : calls[i].dir = k}
CheckErrors == {"AssertionError", "DataCorrupted", "IndexError"}

\* C3: no admix call is ever made for a directory of a never-upload dtype, and
\* skipping such a directory leaves the loop running without an exception.
C3_NeverUploaded ==
  /\ \A i \in 1..Len(calls) : calls[i].dir \notin NeverUpload
  /\ keystring \in NeverUpload =>
       (pc \in {"upload_loop", "done"} /\ err = "none" /\ keystring \in skipped)

\* a records directory was skipped and a directory listed after it was uploaded
C3_Witness ==
  /\ "records" \in skipped
  /\ \E i \in 1..Len(calls), a, b \in 1..Len(listing) :
       /\ calls[i].op = "upload"
       /\ listing[a] = "records" /\ listing[b] = calls[i].dir /\ a < b

\* C4: an empty directory met by the upload loop ends the run with ValueError,
\* with no admix call for it.
C4_EmptyRaisesValueError ==
  contents = "empty" => (pc = "failed" /\ err = "ValueError" /\ CallsFor(keystring) = {})

\* C5: admix is called only for a directory check_chunk_n accepted in this
\* iteration, and when check_chunk_n raises, neither that directory nor any later
\* one of the listing has an admix call.
C5_UploadOnlyAfterCheck ==
  /\ \A i \in 1..Len(calls) : calls[i].dir \in checked
  /\ \A k \in checked : \E j \in 1..(dir_i - 1) : listing[j] = k
  /\ (pc = "failed" /\ err \in CheckErrors) =>
       \A j \in (dir_i - 1)..Len(listing) : CallsFor(listing[j]) = {}

\* an earlier directory was uploaded and check_chunk_n then rejected a later one
C5_Witness ==
  /\ pc = "failed" /\ err = "DataCorrupted"
  /\ \E i \in 1..Len(calls) : calls[i].op = "upload"
  /\ dir_i - 1 < Len(listing)

\* the rules of the level selection, by the markers present in staging
Rule1 == staged \cap {"lone_hits", "pulse_counts", "veto_regions"} # {}
Rule2 == "hitlets_nv" \in staged
Rule3 == "afterpulses" \in staged
Rule4 == "led_calibration" \in staged
IsPrefix(a, b) == Len(a) <= Len(b) /\ \A i \in 1..Len(a) : a[i] = b[i]
MergesOver == pc \in {"exit", "upload_loop", "check", "ship", "upload", "done"}

\* C7: the levels are those of the first rule that matches, and merge is called
\* once per level, in list order.
C7_FirstMatchWins ==
  pc # "start" =>
    /\ Rule1 => plugin_levels = <<"records", "peaklets">>
    /\ (~Rule1 /\ Rule2) => plugin_levels = <<"hitlets_nv">>
    /\ (~Rule1 /\ ~Rule2 /\ Rule3) => plugin_levels = <<"afterpulses">>
    /\ (~Rule1 /\ ~Rule2 /\ ~Rule3 /\ Rule4) => plugin_levels = <<"led_calibration">>
    /\ (~Rule1 /\ ~Rule2 /\ ~Rule3 /\ ~Rule4) => plugin_levels = <<"peaklets">>
    /\ IsPrefix(merge_calls, plugin_levels)
    /\ MergesOver => merge_calls = plugin_levels

\* markers of the first two rules are both present and both merges were made
C7_Witness ==
  Rule1 /\ Rule2 /\ pc = "exit" /\ merge_calls = <<"records", "peaklets">>

InMerge == pc \in {"close_loop", "transfer_loop"}
\* the script is back in main after a merge call returned normally
MergeReturned == pc = "merge_loop" /\ merge_calls # <<>>
\* an exception ended the run inside merge (main re-points storage to one root later)
MergeRaised == pc = "failed" /\ Len(storage) = 2
LastLevel == merge_calls[Len(merge_calls)]
ProvidedBy(l) == {Provides(l)[i] : i \in 1..Len(Provides(l))}
PolicyTrue(l, k) ==
  IF rechunk_on_save[l].kind = "bool" THEN rechunk_on_save[l].val
  ELSE rechunk_entries[k] = "True"

\* C8: a merge call transfers only provided dtypes present in staging, by the
\* rechunking copy exactly when the dtype's policy is true and by the tree copy
\* otherwise, never both; when it returns, each such dtype had its saver closed and
\* one transfer; a provided dtype absent from staging gets nothing and raises nothing.
C8_OneTransferByPolicy ==
  (InMerge \/ MergeReturned \/ MergeRaised) =>
    /\ rechunked \cap copied = {}
    /\ (closed \cup rechunked \cup copied) \subseteq (ProvidedBy(LastLevel) \cap staged)
    /\ \A k \in rechunked : PolicyTrue(LastLevel, k)
    /\ \A k \in copied : ~PolicyTrue(LastLevel, k)
    /\ MergeReturned =>
         /\ closed = ProvidedBy(LastLevel) \cap staged
         /\ rechunked \cup copied = closed
    /\ MergeRaised => Provides(LastLevel)[key_i] \in staged

\* a merge returned having rechunked one dtype, tree-copied another and skipped a
\* provided dtype that staging lacks
C8_Witness ==
  /\ MergeReturned
  /\ rechunked # {} /\ copied # {}
  /\ ProvidedBy(LastLevel) \ staged # {}

\* C6: with the first invocation ended without exception, merge run again on the
\* same staging directory raises nothing of its own (only a collaborator can fail).
C6_SecondMergeSucceeds ==
  (runs >= 2 /\ prev_err = "none" /\ MergeRaised) => err = "ExternalError"

\* C9: every admix.upload directly follows an admix.preupload with the same local
\* path, the same rse and the same did.
C9_SameArguments ==
  \A i \in 1..Len(calls) :
    calls[i].op = "upload" =>
      /\ i > 1
      /\ calls[i - 1].op = "preupload"
      /\ calls[i - 1].path = calls[i].path
      /\ calls[i - 1].rse = calls[i].rse
      /\ calls[i - 1].did = calls[i].did

\* the exception was raised by a saver's close: that dtype's saver is not closed
RaisedInClose == MergeRaised /\ Provides(LastLevel)[key_i] \notin closed

\* C10 (as stated): every merge call starts with the storage roots main configured,
\* and after any exit from merge, an exception included, the roots are those on entry.
C10_RestoredOnAnyExit_AsStated ==
  /\ pc = "merge_loop" => storage = InitialStorage
  /\ InMerge => storage_paths = InitialStorage
  /\ (MergeReturned \/ MergeRaised) => storage = storage_paths

\* C10 (amended): every merge call starts with the storage roots main configured;
\* only storage[0] is re-pointed, to the staging path, during the call; after a
\* normal return, and after an exception raised by a saver's close, the roots are
\* those on entry; after an exception raised by the rechunk or the tree copy
\* storage[0] is left at the staging path and the other roots are as on entry.
C10_RestoredOnReturn ==
  /\ pc = "merge_loop" => storage = InitialStorage
  /\ InMerge => storage_paths = InitialStorage
  /\ pc = "close_loop" => storage = storage_paths
  /\ pc = "transfer_loop" => storage = [storage_paths EXCEPT ![1] = path]
  /\ (MergeReturned \/ RaisedInClose) => storage = storage_paths
  /\ (MergeRaised /\ ~RaisedInClose) => storage = [storage_paths EXCEPT ![1] = path]

\* the second merge call of an invocation has started, after the first returned
C10_Witness ==
  pc = "close_loop" /\ Len(merge_calls) = 2 /\ storage_paths = InitialStorage

====
